---- MODULE Spec2Model ----
(***************************************************************************)
(* pixie-data-service: the /pixie request handler (pixieHandler) and the   *)
(* tablePrinter result accumulator it registers as the streaming sink.     *)
(*                                                                         *)
(* Two versions of the handler exist in the repository: src/main.go        *)
(* ("main") and src/unnamed/part_000 ("part000").  tablePrinter is the     *)
(* same in both.  The remote query service (pxapi) is the environment: it  *)
(* decides the outcome of every client call and the callbacks a stream     *)
(* delivers.                                                               *)
(***************************************************************************)
EXTENDS Integers, Sequences, FiniteSets, TLC

VARIABLES
    ver,        \* which handler is built: "main" or "part000"
    pc,         \* position of pixieHandler in the current request
    req,        \* the request being handled: [method, body]
    script,     \* the script text the handler will execute
    tp,         \* the request's tablePrinter: [cols, rows]
    resp,       \* responses written to the http.ResponseWriter, in order
    calls,      \* external calls made for the current request, in order
    failure,    \* the error of the step that failed, or NoFailure
    ctxs,       \* timeout contexts: [created, cancelled] (sets of names)
    rs,         \* the result set: [state, closes]
    deferred,   \* the handler's deferred calls, in registration order
    metas,      \* history: metadata passed to AcceptTable, in call order
    delivered,  \* history: records passed to HandleRecord, in call order
    ret,        \* history: what the last sink callback returned
    ncalls,     \* history: number of sink callbacks of the current stream
    cfg,        \* config.json as loadConfig found it, and what loadConfig returned
    cbs,        \* trace: names of the sink callbacks made, in call order
    from,       \* trace: for each delivered record, the table it belongs to
    limit,      \* the most callbacks a stream delivers
    cur,        \* the request whose handler goroutine is running
    parked      \* the handler state of the other requests in flight

vars == <<ver, pc, req, script, tp, resp, calls, failure, ctxs, rs, deferred,
          metas, delivered, ret, ncalls, cfg, cbs, from, limit, cur, parked>>

(***************************************************************************)
(* Bounds of the model.                                                    *)
(***************************************************************************)
\* sink callbacks delivered by one stream
MaxCalls == 3
\* sink callbacks delivered by one stream while two requests are in flight
MaxConcCalls == 2
\* sink callbacks delivered by one stream of several tables
MaxTableCalls == 5
\* entries of one metadata attribute (names of a list, descriptors of a slice)
MaxNames == 2
\* recognised attributes a metadata struct type has
MaxFields == 2

Versions == {"main", "part000"}

None == "none"

\* all sequences over S of length at most n
SeqsUpTo(S, n) == UNION {[1..k -> S] : k \in 0..n}

(***************************************************************************)
(* types.Datum and its String() method (pxapi): the textual form of a      *)
(* typed cell.                                                             *)
(***************************************************************************)
Digits == <<"0", "1", "2", "3", "4", "5", "6", "7", "8", "9">>

RECURSIVE FormatNat(_)
FormatNat(n) ==
    IF n < 10 THEN Digits[n + 1]
    ELSE FormatNat(n \div 10) \o Digits[(n % 10) + 1]

FormatInt(i) == IF i < 0 THEN "-" \o FormatNat(0 - i) ELSE FormatNat(i)

FormatBool(b) == IF b THEN "true" ELSE "false"

\* d.String() for the cell kinds the model delivers
DatumString(d) ==
    CASE d.type = "INT64" -> FormatInt(d.val)
      [] d.type = "BOOLEAN" -> FormatBool(d.val)
      [] d.type = "STRING" -> d.val

\* the records (r.Data) a stream may deliver; INT64 12 and STRING "12" have the
\* same textual form
Records ==
    { <<>>,
      << [type |-> "INT64", val |-> 12] >>,
      << [type |-> "STRING", val |-> "12"], [type |-> "BOOLEAN", val |-> TRUE] >>,
      << [type |-> "BOOLEAN", val |-> TRUE], [type |-> "INT64", val |-> -7],
         [type |-> "STRING", val |-> "12"] >> }

(***************************************************************************)
(* types.TableMetadata as reflection sees it: for each probed field name,  *)
(* what v.FieldByName(name) yields.                                        *)
(*   kind "absent"  : no such field (field.IsValid() is false)             *)
(*   kind "strs"    : a []string; strs is the list                         *)
(*   kind "structs" : a slice of structs; items is the list of descriptors *)
(*   kind "other"   : a field of any other type                            *)
(* A descriptor is [NameKind, Name]: NameKind "string" when the struct has *)
(* a string field Name, "absent" when it has none.                         *)
(***************************************************************************)
fieldNames == <<"Columns", "ColNames", "Fields", "Schema">>

FieldNameSet == {fieldNames[i] : i \in 1..Len(fieldNames)}

Names == {"upid", "req_path"}

Descriptors ==
    {[NameKind |-> "string", Name |-> n] : n \in Names}
        \cup {[NameKind |-> "absent", Name |-> ""]}

Absent == [kind |-> "absent", strs |-> <<>>, items |-> <<>>]
Other == [kind |-> "other", strs |-> <<>>, items |-> <<>>]
Strs(s) == [kind |-> "strs", strs |-> s, items |-> <<>>]
Structs(s) == [kind |-> "structs", strs |-> <<>>, items |-> s]
Named(n) == [NameKind |-> "string", Name |-> n]
Unnamed == [NameKind |-> "absent", Name |-> ""]

PresentFields ==
    {Other}
        \cup {Strs(s) : s \in SeqsUpTo(Names, MaxNames)}
        \cup {Structs(s) : s \in SeqsUpTo(Descriptors, MaxNames)}

\* metadata values with at most MaxFields of the probed fields present
\* the sets of probed fields a metadata struct type may have
FieldSets == {T \in SUBSET FieldNameSet : Cardinality(T) <= MaxFields}

\* the metadata value whose fields S have the values g and whose other probed
\* fields are absent
MetaOf(S, g) == [f \in FieldNameSet |-> IF f \in S THEN g[f] ELSE Absent]

\* a metadata value given field by field
Meta(columns, colNames, fields, schema) ==
    [f \in FieldNameSet |->
        CASE f = "Columns" -> columns
          [] f = "ColNames" -> colNames
          [] f = "Fields" -> fields
          [] f = "Schema" -> schema]

\* the table metadata a stream may deliver (one AcceptTable call per table)
StreamMetas ==
    { Meta(Strs(<<"upid", "req_path">>), Absent, Absent, Absent),
      Meta(Absent, Strs(<<"req_path">>), Absent, Absent),
      Meta(Absent, Absent, Structs(<<Named("req_path"), Unnamed, Named("upid")>>), Absent),
      Meta(Absent, Absent, Absent, Structs(<<Unnamed>>)),
      Meta(Structs(<<>>), Strs(<<"upid">>), Absent, Absent),
      Meta(Other, Absent, Absent, Absent),
      Meta(Absent, Absent, Absent, Absent) }

(***************************************************************************)
(* Errors of the pxapi client.  The handlers read an error only through    *)
(* strings.Contains(err.Error(), phrase) and errdefs.IsCompilationError,   *)
(* so an error is the set of probed phrases its text contains and whether  *)
(* it is a compilation error.                                              *)
(***************************************************************************)
Phrases ==
    {"unauthenticated", "invalid API key", "not found", "does not exist",
     "invalid token"}

Err(phrases, compilation) ==
    [nil |-> FALSE, msg |-> phrases, compilation |-> compilation]

\* the nil error
Nil == [nil |-> TRUE, msg |-> {}, compilation |-> FALSE]

\* strings.Contains(err.Error(), phrase)
Contains(err, phrase) == phrase \in err.msg

\* errdefs.IsCompilationError(err)
IsCompilationError(err) == err.compilation

\* errors of NewClient and NewVizierClient
ConnectErrors ==
    { Err({}, FALSE), Err({"unauthenticated"}, FALSE), Err({"invalid API key"}, FALSE),
      Err({"not found"}, FALSE), Err({"does not exist"}, FALSE),
      Err({"unauthenticated", "not found"}, FALSE) }

\* errors of ExecuteScript and Stream
ExecErrors ==
    { Err({}, FALSE), Err({"unauthenticated"}, FALSE), Err({"invalid token"}, FALSE),
      Err({}, TRUE), Err({"unauthenticated"}, TRUE) }

NoFailure == [step |-> None, err |-> Nil, expired |-> FALSE]

Failed(step, err, expired) == [step |-> step, err |-> err, expired |-> expired]

(***************************************************************************)
(* tablePrinter (src/main.go:61-118, the same in src/unnamed/part_000).    *)
(***************************************************************************)
\* tp := &tablePrinter{}
NewTablePrinter == [cols |-> <<>>, rows |-> <<>>]

\* the value of tp while the request has created no tablePrinter
NoTablePrinter == [nil |-> TRUE]

HasTablePrinter == "cols" \in DOMAIN tp

NoReturn == [call |-> None, handler |-> None, err |-> Nil]

\* DescriptorNames with each name put in front of those already collected
RECURSIVE DescriptorNames_Reversed(_)
DescriptorNames_Reversed(items) ==
    IF items = <<>> THEN <<>>
    ELSE DescriptorNames_Reversed(Tail(items))
             \o (IF Head(items).NameKind = "string" THEN <<Head(items).Name>> ELSE <<>>)

\* the Name of every descriptor that has a string field Name, in slice order
RECURSIVE DescriptorNames(_)
DescriptorNames(items) ==
    IF items = <<>> THEN <<>>
    ELSE (IF Head(items).NameKind = "string" THEN <<Head(items).Name>> ELSE <<>>)
             \o DescriptorNames(Tail(items))

\* the loop over fieldNames from index i on, with t.cols = cols so far
RECURSIVE ProbeFrom(_, _, _)
ProbeFrom(cols, meta, i) ==
    IF i > Len(fieldNames) THEN cols
    ELSE LET field == meta[fieldNames[i]] IN
         CASE field.kind = "strs" -> field.strs
           [] field.kind = "structs" ->
                LET appended == cols \o DescriptorNames(field.items) IN
                IF Len(appended) > 0 THEN appended
                ELSE ProbeFrom(appended, meta, i + 1)
           [] OTHER -> ProbeFrom(cols, meta, i + 1)

\* the loop with the break after a []string field left out
RECURSIVE ProbeFrom_NoBreak(_, _, _)
ProbeFrom_NoBreak(cols, meta, i) ==
    IF i > Len(fieldNames) THEN cols
    ELSE LET field == meta[fieldNames[i]] IN
         CASE field.kind = "strs" -> ProbeFrom_NoBreak(field.strs, meta, i + 1)
           [] field.kind = "structs" ->
                LET appended == cols \o DescriptorNames(field.items) IN
                IF Len(appended) > 0 THEN appended
                ELSE ProbeFrom_NoBreak(appended, meta, i + 1)
           [] OTHER -> ProbeFrom_NoBreak(cols, meta, i + 1)

AcceptTableCols_NoBreak(cols, meta) == ProbeFrom_NoBreak(cols, meta, 1)

\* t.cols after AcceptTable(metadata) on a tablePrinter whose cols are cols
AcceptTableCols(cols, meta) == ProbeFrom(cols, meta, 1)

\* the row HandleRecord builds from r.Data
RECURSIVE RowOf(_)
RowOf(data) ==
    IF data = <<>> THEN <<>>
    ELSE <<DatumString(Head(data))>> \o RowOf(Tail(data))

\* HandleRecordRows with the new row put first
HandleRecordRows_Prepend(rows, data) == <<RowOf(data)>> \o rows

\* t.rows after HandleRecord(r)
HandleRecordRows(rows, data) == Append(rows, RowOf(data))

Streaming == pc = "stream" /\ ncalls < limit

HandlerFrame ==
    UNCHANGED <<ver, pc, req, script, resp, calls, failure, ctxs, rs, deferred,
                cfg, limit, cur, parked>>

\* the tables a record can belong to: those accepted so far (0: none yet)
Tables == IF metas = <<>> THEN {0} ELSE 1..Len(metas)

\* The sink callbacks below leave cbs and from, the trace of the stream, to
\* the specification that runs them: Untraced keeps no trace, Traced(c)
\* notes callback c, TracedRecord(t) notes a HandleRecord for table t.
Untraced == UNCHANGED <<cbs, from>>

Traced(c) == cbs' = Append(cbs, c) /\ UNCHANGED from

TracedRecord(t) == cbs' = Append(cbs, "HandleRecord") /\ from' = Append(from, t)

\* AcceptTable starting the rows afresh for each table
AcceptTable_ResetRows(meta) ==
    /\ Streaming
    /\ tp' = [cols |-> AcceptTableCols(tp.cols, meta), rows |-> <<>>]
    /\ metas' = Append(metas, meta)
    /\ ret' = [call |-> "AcceptTable", handler |-> "tablePrinter", err |-> Nil]
    /\ ncalls' = ncalls + 1
    /\ UNCHANGED delivered
    /\ HandlerFrame

AcceptTable(meta) ==
    /\ Streaming
    /\ tp' = [tp EXCEPT !.cols = AcceptTableCols(tp.cols, meta)]
    /\ metas' = Append(metas, meta)
    /\ ret' = [call |-> "AcceptTable", handler |-> "tablePrinter", err |-> Nil]
    /\ ncalls' = ncalls + 1
    /\ UNCHANGED delivered
    /\ HandlerFrame

HandleInit(meta) ==
    /\ Streaming
    /\ ret' = [call |-> "HandleInit", handler |-> None, err |-> Nil]
    /\ ncalls' = ncalls + 1
    /\ UNCHANGED <<tp, metas, delivered>>
    /\ HandlerFrame

\* HandleRecord refusing a record whose cell count is not len(t.cols)
HandleRecord_Strict(r) ==
    /\ Streaming
    /\ IF Len(r) = Len(tp.cols)
       THEN /\ tp' = [tp EXCEPT !.rows = HandleRecordRows(tp.rows, r)]
            /\ ret' = [call |-> "HandleRecord", handler |-> None, err |-> Nil]
       ELSE /\ tp' = tp
            /\ ret' = [call |-> "HandleRecord", handler |-> None,
                       err |-> Err({"column count mismatch"}, FALSE)]
    /\ delivered' = Append(delivered, r)
    /\ ncalls' = ncalls + 1
    /\ UNCHANGED metas
    /\ HandlerFrame

\* HandleRecord keeping one list per table: the row goes after the rows of
\* its own table and of the tables accepted before it
HandleRecord_GroupByTable(r) ==
    /\ Streaming
    /\ LET t == from'[Len(from')]
           p == Cardinality({i \in 1..Len(from) : from[i] <= t})
       IN tp' = [tp EXCEPT !.rows = SubSeq(tp.rows, 1, p) \o <<RowOf(r)>>
                                        \o SubSeq(tp.rows, p + 1, Len(tp.rows))]
    /\ delivered' = Append(delivered, r)
    /\ ret' = [call |-> "HandleRecord", handler |-> None, err |-> Nil]
    /\ ncalls' = ncalls + 1
    /\ UNCHANGED metas
    /\ HandlerFrame

\* HandleRecord fitting the row to len(t.cols) once columns are known: cells
\* beyond the columns dropped, missing cells left empty
HandleRecord_Fitted(r) ==
    /\ Streaming
    /\ LET row == RowOf(r)
           fitted == [k \in 1..Len(tp.cols) |-> IF k <= Len(row) THEN row[k] ELSE ""]
       IN tp' = [tp EXCEPT !.rows = Append(tp.rows, IF tp.cols = <<>> THEN row ELSE fitted)]
    /\ delivered' = Append(delivered, r)
    /\ ret' = [call |-> "HandleRecord", handler |-> None, err |-> Nil]
    /\ ncalls' = ncalls + 1
    /\ UNCHANGED metas
    /\ HandlerFrame

HandleRecord(r) ==
    /\ Streaming
    /\ tp' = [tp EXCEPT !.rows = HandleRecordRows(tp.rows, r)]
    /\ delivered' = Append(delivered, r)
    /\ ret' = [call |-> "HandleRecord", handler |-> None, err |-> Nil]
    /\ ncalls' = ncalls + 1
    /\ UNCHANGED metas
    /\ HandlerFrame

HandleDone ==
    /\ Streaming
    /\ ret' = [call |-> "HandleDone", handler |-> None, err |-> Nil]
    /\ ncalls' = ncalls + 1
    /\ UNCHANGED <<tp, metas, delivered>>
    /\ HandlerFrame

(***************************************************************************)
(* HTTP.                                                                   *)
(***************************************************************************)
StatusOK == 200
StatusBadRequest == 400
StatusUnauthorized == 401
StatusNotFound == 404
StatusMethodNotAllowed == 405
StatusInternalServerError == 500
StatusGatewayTimeout == 504

Methods == {"POST", "GET"}

\* request bodies: not JSON, JSON with an empty (or no) script, JSON with a script
Bodies ==
    { [json |-> FALSE, script |-> ""],
      [json |-> TRUE, script |-> ""],
      [json |-> TRUE, script |-> "px.display(df)"] }

\* http.Error(w, text, status); the text is a fixed prefix and, on some paths,
\* the error's text
HttpError(prefix, err, status) ==
    [status |-> status, body |-> [text |-> <<prefix, err.msg>>]]

\* json.NewEncoder(w).Encode(output) with no status set before: a 200
JsonResponse(cols, rows, stats) ==
    [status |-> StatusOK, body |-> [columns |-> cols, rows |-> rows, stats |-> stats]]

\* what rs.Stats() may return
StatsValues == {[AcceptedBytes |-> 64, TotalBytes |-> 64]}

(***************************************************************************)
(* config.json and loadConfig.                                             *)
(***************************************************************************)
ConfigFiles ==
    { [state |-> "unreadable", px_api_key |-> "", px_cluster_id |-> "", cloud_addr |-> ""],
      [state |-> "notjson", px_api_key |-> "", px_cluster_id |-> "", cloud_addr |-> ""] }
        \cup [state : {"json"}, px_api_key : {"", "key"}, px_cluster_id : {"", "cluster"},
              cloud_addr : {"", "dev.withpixie.dev:443"}]

\* no config file read yet
NoConfigFile == [state |-> None, px_api_key |-> "", px_cluster_id |-> "", cloud_addr |-> ""]

NoConfig == [PXAPIKey |-> "", PXClusterID |-> "", CloudAddr |-> ""]

\* loadConfig without the check of cloud_addr
loadConfig_NoCloudAddr(file) ==
    CASE file.state = "unreadable" ->
            [config |-> NoConfig, err |-> Err({"could not read config file"}, FALSE)]
      [] file.state = "notjson" ->
            [config |-> NoConfig, err |-> Err({"could not parse config file"}, FALSE)]
      [] file.px_api_key = "" ->
            [config |-> NoConfig, err |-> Err({"PX_API_KEY is not set in config file"}, FALSE)]
      [] file.px_cluster_id = "" ->
            [config |-> NoConfig, err |-> Err({"PX_CLUSTER_ID is not set in config file"}, FALSE)]
      [] OTHER ->
            [config |-> [PXAPIKey |-> file.px_api_key, PXClusterID |-> file.px_cluster_id,
                         CloudAddr |-> file.cloud_addr],
             err |-> Nil]

\* loadConfig(filename): [config, err]; config is NoConfig where the code returns nil
loadConfig(file) ==
    CASE file.state = "unreadable" ->
            [config |-> NoConfig, err |-> Err({"could not read config file"}, FALSE)]
      [] file.state = "notjson" ->
            [config |-> NoConfig, err |-> Err({"could not parse config file"}, FALSE)]
      [] file.px_api_key = "" ->
            [config |-> NoConfig, err |-> Err({"PX_API_KEY is not set in config file"}, FALSE)]
      [] file.px_cluster_id = "" ->
            [config |-> NoConfig, err |-> Err({"PX_CLUSTER_ID is not set in config file"}, FALSE)]
      [] file.cloud_addr = "" ->
            [config |-> NoConfig, err |-> Err({"CLOUD_ADDR is not set in config file"}, FALSE)]
      [] OTHER ->
            [config |-> [PXAPIKey |-> file.px_api_key, PXClusterID |-> file.px_cluster_id,
                         CloudAddr |-> file.cloud_addr],
             err |-> Nil]

\* the value of cfg while the handler has not called loadConfig
NoCfg == [file |-> NoConfigFile, config |-> NoConfig, err |-> Nil]

\* conn_status.pxl as readPXLScript finds it
ScriptFiles ==
    { [readable |-> FALSE, text |-> ""], [readable |-> TRUE, text |-> "import px"] }

\* readPXLScript(filename): [text, err]
readPXLScript(file) ==
    IF file.readable THEN [text |-> file.text, err |-> Nil]
    ELSE [text |-> "", err |-> Err({"could not read PXL script file"}, FALSE)]

(***************************************************************************)
(* pixieHandler.                                                           *)
(***************************************************************************)
RECURSIVE Reverse(_)
Reverse(s) == IF s = <<>> THEN <<>> ELSE Append(Reverse(Tail(s)), Head(s))

RECURSIVE Count(_, _)
Count(s, x) ==
    IF s = <<>> THEN 0 ELSE (IF Head(s) = x THEN 1 ELSE 0) + Count(Tail(s), x)

CancelOf(ctx) == ctx \o "Cancel"

SinkFrame == UNCHANGED <<tp, metas, delivered, ret, ncalls, cbs, from, limit, cur, parked>>

\* the handler goes on to its next step
Continue(next, log) ==
    /\ pc' = next
    /\ calls' = calls \o log
    /\ UNCHANGED <<resp, failure>>

\* the handler writes response r and returns; the deferred calls in stack
\* (registration order) run last registered first
Return(r, fail, log, created, stack, rsNow) ==
    /\ pc' = "done"
    /\ resp' = Append(resp, r)
    /\ failure' = fail
    /\ calls' = calls \o log \o <<"Write">> \o Reverse(stack)
    /\ ctxs' = [created |-> created,
                cancelled |-> ctxs.cancelled
                    \cup {c \in created : Count(stack, CancelOf(c)) > 0}]
    /\ rs' = [state |-> IF Count(stack, "rs.Close") > 0 THEN "closed" ELSE rsNow.state,
              closes |-> rsNow.closes + Count(stack, "rs.Close")]
    /\ deferred' = <<>>

\* Receive with the check of an empty script left out
Receive_NoScriptCheck(method, body) ==
    /\ pc = "idle"
    /\ req' = [method |-> method, body |-> body]
    /\ UNCHANGED <<ver, cfg>>
    /\ SinkFrame
    /\ IF ver = "main"
       THEN IF method # "POST"
            THEN /\ Return(HttpError("Only POST allowed", Nil, StatusMethodNotAllowed),
                           Failed("method", Nil, FALSE), <<>>, {}, <<>>, rs)
                 /\ UNCHANGED script
            ELSE IF ~body.json
            THEN /\ Return(HttpError("Invalid JSON body", Nil, StatusBadRequest),
                           Failed("decode", Nil, FALSE), <<>>, {}, <<>>, rs)
                 /\ UNCHANGED script
            ELSE /\ Continue("loadConfig", <<>>)
                 /\ script' = body.script
                 /\ UNCHANGED <<ctxs, rs, deferred>>
       ELSE /\ Continue("loadConfig", <<>>)
            /\ UNCHANGED <<script, ctxs, rs, deferred>>

\* pixieHandler is entered: the method check and the body decoding of
\* src/main.go; src/unnamed/part_000 reads neither
Receive(method, body) ==
    /\ pc = "idle"
    /\ req' = [method |-> method, body |-> body]
    /\ UNCHANGED <<ver, cfg>>
    /\ SinkFrame
    /\ IF ver = "main"
       THEN IF method # "POST"
            THEN /\ Return(HttpError("Only POST allowed", Nil, StatusMethodNotAllowed),
                           Failed("method", Nil, FALSE), <<>>, {}, <<>>, rs)
                 /\ UNCHANGED script
            ELSE IF ~body.json
            THEN /\ Return(HttpError("Invalid JSON body", Nil, StatusBadRequest),
                           Failed("decode", Nil, FALSE), <<>>, {}, <<>>, rs)
                 /\ UNCHANGED script
            ELSE IF body.script = ""
            THEN /\ Return(HttpError("Missing 'script' field in request body", Nil,
                                     StatusBadRequest),
                           Failed("script", Nil, FALSE), <<>>, {}, <<>>, rs)
                 /\ UNCHANGED script
            ELSE /\ Continue("loadConfig", <<>>)
                 /\ script' = body.script
                 /\ UNCHANGED <<ctxs, rs, deferred>>
       ELSE /\ Continue("loadConfig", <<>>)
            /\ UNCHANGED <<script, ctxs, rs, deferred>>

\* config, err := loadConfig("config.json"); part_000 then checks the two
\* credentials again
LoadConfig(file) ==
    /\ pc = "loadConfig"
    /\ cfg' = [file |-> file, config |-> loadConfig(file).config,
               err |-> loadConfig(file).err]
    /\ UNCHANGED <<ver, req, script>>
    /\ SinkFrame
    /\ LET r == loadConfig(file) IN
       IF ~r.err.nil
       THEN Return(HttpError("Failed to load configuration", Nil, StatusInternalServerError),
                   Failed("loadConfig", r.err, FALSE), <<"loadConfig">>, {}, <<>>, rs)
       ELSE IF ver = "part000" /\ r.config.PXAPIKey = ""
       THEN Return(HttpError("PX_API_KEY environment variable is not set", Nil,
                             StatusInternalServerError),
                   Failed("credentials", Nil, FALSE), <<"loadConfig">>, {}, <<>>, rs)
       ELSE IF ver = "part000" /\ r.config.PXClusterID = ""
       THEN Return(HttpError("PX_CLUSTER_ID environment variable is not set", Nil,
                             StatusInternalServerError),
                   Failed("credentials", Nil, FALSE), <<"loadConfig">>, {}, <<>>, rs)
       ELSE /\ Continue("newClient", <<"loadConfig">>)
            /\ UNCHANGED <<ctxs, rs, deferred>>

\* client, err := pxapi.NewClient(ctx, ...)
NewClient(err) ==
    /\ pc = "newClient"
    /\ UNCHANGED <<ver, req, script, cfg>>
    /\ SinkFrame
    /\ IF err.nil
       THEN /\ Continue("newVizier", <<"NewClient">>)
            /\ UNCHANGED <<ctxs, rs, deferred>>
       ELSE LET r == IF ver = "main"
                     THEN HttpError("Failed to create Pixie API client: ", err,
                                    StatusInternalServerError)
                     ELSE IF Contains(err, "unauthenticated")
                              \/ Contains(err, "invalid API key")
                     THEN HttpError("Authentication failed: Invalid API key", Nil,
                                    StatusUnauthorized)
                     ELSE HttpError("Failed to create Pixie API client: ", err,
                                    StatusInternalServerError)
            IN Return(r, Failed("NewClient", err, FALSE), <<"NewClient">>, {}, <<>>, rs)

\* vizCtx with its timeout and deferred cancel, then
\* vz, err := client.NewVizierClient(vizCtx, clusterID); expired is whether
\* vizCtx.Err() is context.DeadlineExceeded when the call has failed
NewVizierClient(err, expired) ==
    /\ pc = "newVizier"
    /\ err.nil => ~expired
    /\ UNCHANGED <<ver, req, script, cfg>>
    /\ SinkFrame
    /\ LET created == ctxs.created \cup {"viz"}
           stack == Append(deferred, CancelOf("viz"))
       IN
       IF err.nil
       THEN /\ Continue(IF ver = "main" THEN "execute" ELSE "readScript",
                        <<"NewVizierClient">>)
            /\ ctxs' = [ctxs EXCEPT !.created = created]
            /\ deferred' = stack
            /\ UNCHANGED rs
       ELSE LET r == IF ver = "main"
                     THEN HttpError("Failed to connect to cluster: ", err,
                                    StatusInternalServerError)
                     ELSE IF Contains(err, "unauthenticated")
                              \/ Contains(err, "invalid API key")
                     THEN HttpError("Authentication failed: Invalid API key or cluster ID",
                                    Nil, StatusUnauthorized)
                     ELSE IF Contains(err, "not found") \/ Contains(err, "does not exist")
                     THEN HttpError("Cluster not found: ", Nil, StatusNotFound)
                     ELSE IF expired
                     THEN HttpError("Timeout connecting to cluster", Nil,
                                    StatusGatewayTimeout)
                     ELSE HttpError("Failed to connect to cluster: ", err,
                                    StatusInternalServerError)
            IN Return(r, Failed("NewVizierClient", err, expired), <<"NewVizierClient">>,
                      created, stack, rs)

\* part_000 only: pxlScript, err := readPXLScript("conn_status.pxl")
ReadPXLScript(file) ==
    /\ pc = "readScript"
    /\ UNCHANGED <<ver, req, cfg>>
    /\ SinkFrame
    /\ LET r == readPXLScript(file) IN
       IF ~r.err.nil
       THEN /\ Return(HttpError("Failed to read PXL script", Nil, StatusInternalServerError),
                      Failed("readPXLScript", r.err, FALSE), <<"readPXLScript">>,
                      ctxs.created, deferred, rs)
            /\ UNCHANGED script
       ELSE /\ Continue("execute", <<"readPXLScript">>)
            /\ script' = r.text
            /\ UNCHANGED <<ctxs, rs, deferred>>

\* ExecuteScript with defer rs.Close() registered before the error is checked
ExecuteScript_DeferBeforeCheck(err) ==
    /\ pc = "execute"
    /\ UNCHANGED <<ver, req, script, cfg>>
    /\ tp' = NewTablePrinter
    /\ UNCHANGED <<metas, delivered, ret, ncalls, cbs, from, limit, cur, parked>>
    /\ LET created == IF ver = "main" THEN ctxs.created \cup {"exec"} ELSE ctxs.created
           stack == IF ver = "main" THEN Append(deferred, CancelOf("exec")) ELSE deferred
       IN
       IF err.nil
       THEN /\ Continue("stream", <<"ExecuteScript">>)
            /\ ctxs' = [ctxs EXCEPT !.created = created]
            /\ rs' = [state |-> "open", closes |-> 0]
            /\ deferred' = Append(stack, "rs.Close")
       ELSE Return(HttpError(IF ver = "main" THEN "Script execution failed: " ELSE "", err,
                             StatusBadRequest),
                   Failed("ExecuteScript", err, FALSE), <<"ExecuteScript">>,
                   created, Append(stack, "rs.Close"), rs)

\* tp := &tablePrinter{}; in main.go execCtx with its timeout and deferred
\* cancel; rs, err := vz.ExecuteScript(..., tp); defer rs.Close()
ExecuteScript(err) ==
    /\ pc = "execute"
    /\ UNCHANGED <<ver, req, script, cfg>>
    /\ tp' = NewTablePrinter
    /\ UNCHANGED <<metas, delivered, ret, ncalls, cbs, from, limit, cur, parked>>
    /\ LET created == IF ver = "main" THEN ctxs.created \cup {"exec"} ELSE ctxs.created
           stack == IF ver = "main" THEN Append(deferred, CancelOf("exec")) ELSE deferred
       IN
       IF err.nil
       THEN /\ Continue("stream", <<"ExecuteScript">>)
            /\ ctxs' = [ctxs EXCEPT !.created = created]
            /\ rs' = [state |-> "open", closes |-> 0]
            /\ deferred' = Append(stack, "rs.Close")
       ELSE Return(HttpError(IF ver = "main" THEN "Script execution failed: " ELSE "", err,
                             StatusBadRequest),
                   Failed("ExecuteScript", err, FALSE), <<"ExecuteScript">>,
                   created, stack, rs)

\* StreamReturn with the error of rs.Stream() not checked
StreamReturn_IgnoreError(err, stats) ==
    /\ pc = "stream"
    /\ UNCHANGED <<ver, req, script, cfg>>
    /\ SinkFrame
    /\ Return(JsonResponse(tp.cols, tp.rows, stats),
              IF err.nil THEN NoFailure ELSE Failed("Stream", err, FALSE),
              <<"Stream", "Stats">>, ctxs.created, deferred, rs)

\* rs.Stream() returns, after the callbacks it made; on success the handler
\* reads rs.Stats() and encodes the response
StreamReturn(err, stats) ==
    /\ pc = "stream"
    /\ UNCHANGED <<ver, req, script, cfg>>
    /\ SinkFrame
    /\ IF err.nil
       THEN Return(JsonResponse(tp.cols, tp.rows, stats), NoFailure,
                   <<"Stream", "Stats">>, ctxs.created, deferred, rs)
       ELSE LET r == IF ver = "main"
                     THEN HttpError("Streaming failed: ", err, StatusInternalServerError)
                     ELSE IF IsCompilationError(err)
                     THEN HttpError("PxL compilation error: ", err, StatusBadRequest)
                     ELSE IF Contains(err, "unauthenticated")
                              \/ Contains(err, "invalid token")
                     THEN HttpError("Authentication failed during script execution: Invalid or expired token",
                                    Nil, StatusUnauthorized)
                     ELSE HttpError("", err, StatusInternalServerError)
            IN Return(r, Failed("Stream", err, FALSE), <<"Stream">>,
                      ctxs.created, deferred, rs)

\* requests the server has in flight at once
Requests == {1, 2}

NoRequest == [method |-> None, body |-> [json |-> FALSE, script |-> ""]]

\* the state of the server between two requests
Idle ==
    /\ pc = "idle"
    /\ req = NoRequest
    /\ script = None
    /\ tp = NoTablePrinter
    /\ resp = <<>>
    /\ calls = <<>>
    /\ failure = NoFailure
    /\ ctxs = [created |-> {}, cancelled |-> {}]
    /\ rs = [state |-> None, closes |-> 0]
    /\ deferred = <<>>
    /\ metas = <<>>
    /\ delivered = <<>>
    /\ ret = NoReturn
    /\ ncalls = 0
    /\ cfg = NoCfg
    /\ cbs = <<>>
    /\ from = <<>>

\* the handler has returned: net/http completes the response and the
\* request's state is dropped
Finish ==
    /\ pc = "done"
    /\ pc' = "idle"
    /\ req' = NoRequest
    /\ script' = None
    /\ tp' = NoTablePrinter
    /\ resp' = <<>>
    /\ calls' = <<>>
    /\ failure' = NoFailure
    /\ ctxs' = [created |-> {}, cancelled |-> {}]
    /\ rs' = [state |-> None, closes |-> 0]
    /\ deferred' = <<>>
    /\ metas' = <<>>
    /\ delivered' = <<>>
    /\ ret' = NoReturn
    /\ ncalls' = 0
    /\ cfg' = NoCfg
    /\ cbs' = <<>>
    /\ from' = <<>>
    /\ UNCHANGED <<ver, limit, cur, parked>>

\* the handler state of a request not yet received
IdleLocal ==
    [pc |-> "idle", req |-> NoRequest, script |-> None, tp |-> NoTablePrinter,
     resp |-> <<>>, calls |-> <<>>, failure |-> NoFailure,
     ctxs |-> [created |-> {}, cancelled |-> {}], rs |-> [state |-> None, closes |-> 0],
     deferred |-> <<>>, metas |-> <<>>, delivered |-> <<>>, ret |-> NoReturn,
     ncalls |-> 0, cfg |-> NoCfg, cbs |-> <<>>, from |-> <<>>]

\* one request at a time: the server handles request 1, no other in flight
Alone == cur = 1 /\ parked = [i \in Requests |-> IdleLocal]

Init == ver \in Versions /\ limit = MaxCalls /\ Alone /\ Idle

Next ==
    \/ \E method \in Methods, body \in Bodies : Receive(method, body)
    \/ \E file \in ConfigFiles : LoadConfig(file)
    \/ \E err \in ConnectErrors \cup {Nil} : NewClient(err)
    \/ \E err \in ConnectErrors \cup {Nil}, expired \in BOOLEAN : NewVizierClient(err, expired)
    \/ \E file \in ScriptFiles : ReadPXLScript(file)
    \/ \E err \in ExecErrors \cup {Nil} : ExecuteScript(err)
    \/ \E meta \in StreamMetas : Untraced /\ AcceptTable(meta)
    \/ \E meta \in StreamMetas : Untraced /\ HandleInit(meta)
    \/ \E r \in Records : Untraced /\ HandleRecord(r)
    \/ Untraced /\ HandleDone
    \/ \E err \in ExecErrors \cup {Nil}, stats \in StatsValues : StreamReturn(err, stats)
    \/ Finish

Spec == Init /\ [][Next]_vars

(***************************************************************************)
(* Requests in flight together.  net/http runs pixieHandler for each       *)
(* request in a goroutine of its own; every variable of pixieHandler,      *)
(* tp included, is local to the call, and the program has no package-level *)
(* variable.  The variables pc .. from hold the state of the goroutine     *)
(* that is running (request cur); parked holds the state of the others.    *)
(***************************************************************************)
\* the state of the running handler
Local ==
    [pc |-> pc, req |-> req, script |-> script, tp |-> tp, resp |-> resp,
     calls |-> calls, failure |-> failure, ctxs |-> ctxs, rs |-> rs,
     deferred |-> deferred, metas |-> metas, delivered |-> delivered, ret |-> ret,
     ncalls |-> ncalls, cfg |-> cfg, cbs |-> cbs, from |-> from]

\* Switch with tp kept as one variable shared by all handlers
Switch_SharedPrinter(i) ==
    /\ i # cur
    /\ cur' = i
    /\ parked' = [parked EXCEPT ![cur] = Local, ![i] = IdleLocal]
    /\ pc' = parked[i].pc
    /\ req' = parked[i].req
    /\ script' = parked[i].script
    /\ tp' = tp
    /\ resp' = parked[i].resp
    /\ calls' = parked[i].calls
    /\ failure' = parked[i].failure
    /\ ctxs' = parked[i].ctxs
    /\ rs' = parked[i].rs
    /\ deferred' = parked[i].deferred
    /\ metas' = parked[i].metas
    /\ delivered' = parked[i].delivered
    /\ ret' = parked[i].ret
    /\ ncalls' = parked[i].ncalls
    /\ cfg' = parked[i].cfg
    /\ cbs' = parked[i].cbs
    /\ from' = parked[i].from
    /\ UNCHANGED <<ver, limit>>

\* the scheduler stops the running handler between two of its steps and
\* resumes the handler of request i where it had stopped
Switch(i) ==
    /\ i # cur
    /\ cur' = i
    /\ parked' = [parked EXCEPT ![cur] = Local, ![i] = IdleLocal]
    /\ pc' = parked[i].pc
    /\ req' = parked[i].req
    /\ script' = parked[i].script
    /\ tp' = parked[i].tp
    /\ resp' = parked[i].resp
    /\ calls' = parked[i].calls
    /\ failure' = parked[i].failure
    /\ ctxs' = parked[i].ctxs
    /\ rs' = parked[i].rs
    /\ deferred' = parked[i].deferred
    /\ metas' = parked[i].metas
    /\ delivered' = parked[i].delivered
    /\ ret' = parked[i].ret
    /\ ncalls' = parked[i].ncalls
    /\ cfg' = parked[i].cfg
    /\ cbs' = parked[i].cbs
    /\ from' = parked[i].from
    /\ UNCHANGED <<ver, limit>>

\* what the environment feeds the handlers while two requests are in flight
ConcBody == [json |-> TRUE, script |-> "px.display(df)"]

ConcConfigFiles ==
    { [state |-> "unreadable", px_api_key |-> "", px_cluster_id |-> "", cloud_addr |-> ""],
      [state |-> "json", px_api_key |-> "key", px_cluster_id |-> "cluster",
       cloud_addr |-> "dev.withpixie.dev:443"] }

ConcErrors == {Nil, Err({}, FALSE)}

\* the table and the record the script of request i produces: each request
\* has data of its own
ConcMetas ==
    << Meta(Strs(<<"upid", "req_path">>), Absent, Absent, Absent),
       Meta(Absent, Strs(<<"req_path">>), Absent, Absent) >>

ConcRecords ==
    << << [type |-> "INT64", val |-> 12] >>,
       << [type |-> "STRING", val |-> "12"], [type |-> "BOOLEAN", val |-> TRUE] >> >>

InitConc == ver \in Versions /\ limit = MaxConcCalls /\ Alone /\ Idle

NextConc ==
    \/ \E method \in Methods : Receive(method, ConcBody)
    \/ \E file \in ConcConfigFiles : LoadConfig(file)
    \/ \E err \in ConcErrors : NewClient(err)
    \/ \E err \in ConcErrors : NewVizierClient(err, FALSE)
    \/ \E file \in ScriptFiles : ReadPXLScript(file)
    \/ \E err \in ConcErrors : ExecuteScript(err)
    \/ Untraced /\ AcceptTable(ConcMetas[cur])
    \/ Untraced /\ HandleInit(ConcMetas[cur])
    \/ Untraced /\ HandleRecord(ConcRecords[cur])
    \/ Untraced /\ HandleDone
    \/ \E err \in ConcErrors, stats \in StatsValues : StreamReturn(err, stats)
    \/ Finish
    \/ \E i \in Requests : Switch(i)

SpecConc == InitConc /\ [][NextConc]_vars

(***************************************************************************)
(* The first table of a stream: AcceptTable applied once to the request's  *)
(* fresh tablePrinter, for every metadata value of Metas.                  *)
(***************************************************************************)
\* the state in which rs.Stream() starts, no callback made yet
StreamStart ==
    /\ pc = "stream"
    /\ req = [method |-> "POST", body |-> [json |-> TRUE, script |-> "px.display(df)"]]
    /\ script = IF ver = "main" THEN "px.display(df)" ELSE "import px"
    /\ tp = NewTablePrinter
    /\ resp = <<>>
    /\ calls = IF ver = "main"
               THEN <<"loadConfig", "NewClient", "NewVizierClient", "ExecuteScript">>
               ELSE <<"loadConfig", "NewClient", "NewVizierClient", "readPXLScript",
                      "ExecuteScript">>
    /\ failure = NoFailure
    /\ ctxs = [created |-> IF ver = "main" THEN {"viz", "exec"} ELSE {"viz"},
               cancelled |-> {}]
    /\ rs = [state |-> "open", closes |-> 0]
    /\ deferred = IF ver = "main"
                  THEN <<"vizCancel", "execCancel", "rs.Close">>
                  ELSE <<"vizCancel", "rs.Close">>
    /\ metas = <<>>
    /\ delivered = <<>>
    /\ ret = NoReturn
    /\ ncalls = 0
    /\ cfg = [file |-> [state |-> "json", px_api_key |-> "key", px_cluster_id |-> "cluster",
                        cloud_addr |-> "dev.withpixie.dev:443"],
              config |-> [PXAPIKey |-> "key", PXClusterID |-> "cluster",
                          CloudAddr |-> "dev.withpixie.dev:443"],
              err |-> Nil]
    /\ cbs = <<>>
    /\ from = <<>>

InitAccept == ver \in Versions /\ limit = MaxCalls /\ Alone /\ StreamStart

NextAccept ==
    /\ metas = <<>>
    /\ Untraced
    /\ \E S \in FieldSets : \E g \in [S -> PresentFields] : AcceptTable(MetaOf(S, g))

SpecAccept == InitAccept /\ [][NextAccept]_vars

(***************************************************************************)
(* A stream of several tables: the callbacks of one rs.Stream() call, the  *)
(* records of the tables accepted so far arriving in any interleaving.     *)
(***************************************************************************)
TableMetas ==
    { Meta(Strs(<<"upid", "req_path">>), Absent, Absent, Absent),
      Meta(Absent, Absent, Structs(<<Named("req_path")>>), Absent) }

TableRecords ==
    { << [type |-> "INT64", val |-> 12] >>,
      << [type |-> "STRING", val |-> "12"], [type |-> "BOOLEAN", val |-> TRUE] >> }

InitTables == ver \in Versions /\ limit = MaxTableCalls /\ Alone /\ StreamStart

NextTables ==
    \/ \E meta \in TableMetas : Traced("AcceptTable") /\ AcceptTable(meta)
    \/ \E meta \in TableMetas : Traced("HandleInit") /\ HandleInit(meta)
    \/ \E r \in TableRecords, t \in Tables : TracedRecord(t) /\ HandleRecord(r)
    \/ Traced("HandleDone") /\ HandleDone

SpecTables == InitTables /\ [][NextTables]_vars

(***************************************************************************)
(* Properties.                                                             *)
(***************************************************************************)
Min(S) == CHOOSE x \in S : \A y \in S : x <= y

HasNamedItem(field) ==
    field.kind = "structs"
        /\ \E k \in 1..Len(field.items) : field.items[k].NameKind = "string"

\* the names a field yields: a []string yields its elements, a slice of
\* structs the Name of each descriptor that has one
YieldedNames(field) ==
    CASE field.kind = "strs" -> field.strs
      [] field.kind = "structs" -> DescriptorNames(field.items)
      [] OTHER -> <<>>

\* positions in fieldNames of the fields of a given kind
FieldsOfKind(meta, kind) == {i \in 1..Len(fieldNames) : meta[fieldNames[i]].kind = kind}

\* metadata exposing none of the recognised shapes
Unrecognised(meta) == \A f \in FieldNameSet : meta[f].kind \in {"absent", "other"}

FirstAccepted == HasTablePrinter /\ Len(metas) = 1

Responded == pc = "done" /\ Len(resp) = 1

\* C1: after any sequence of callbacks rows has one row per HandleRecord call,
\* in call order, and row i holds the String() of each cell of record i, in
\* cell order.
C1_RowsAreDeliveredRecords ==
    HasTablePrinter =>
        /\ Len(tp.rows) = Len(delivered)
        /\ \A i \in 1..Len(delivered) :
              /\ Len(tp.rows[i]) = Len(delivered[i])
              /\ \A j \in 1..Len(delivered[i]) :
                    tp.rows[i][j] = DatumString(delivered[i][j])

C1_Witness ==
    /\ HasTablePrinter
    /\ Len(metas) = 1
    /\ Len(tp.rows) = 2
    /\ delivered[1] # delivered[2]
    /\ Len(delivered[1]) = 3
    /\ tp.rows[1] = <<"true", "-7", "12">>

\* C2: after two or more AcceptTable calls columns is still what the first
\* call's metadata gives a fresh tablePrinter.
C2_ColumnsFromFirstTable ==
    (HasTablePrinter /\ Len(metas) >= 2) => tp.cols = AcceptTableCols(<<>>, metas[1])

\* C3: AcceptTable on a fresh tablePrinter sets columns to the names of the
\* first field, in the order Columns, ColNames, Fields, Schema, that yields at
\* least one name; a field yielding none does not stop the probing.
C3_FirstFieldYieldingNames ==
    FirstAccepted =>
        LET m == metas[1]
            yielding == {i \in 1..Len(fieldNames) : Len(YieldedNames(m[fieldNames[i]])) > 0}
        IN tp.cols = IF yielding = {} THEN <<>>
                     ELSE YieldedNames(m[fieldNames[Min(yielding)]])

\* C4 as stated: metadata exposing a []string under a probed field leaves
\* columns equal to such a list.
C4_ColumnsAreAStringList ==
    (FirstAccepted /\ FieldsOfKind(metas[1], "strs") # {}) =>
        \E i \in FieldsOfKind(metas[1], "strs") : tp.cols = metas[1][fieldNames[i]].strs

\* C4 as amended: metadata exposing a []string under a probed field, with no
\* slice of structs holding a named descriptor under an earlier probed field,
\* leaves columns equal to the first such list, same elements in the same
\* order.
C4_ColumnsAreFirstStringList ==
    (FirstAccepted /\ FieldsOfKind(metas[1], "strs") # {}) =>
        LET m == metas[1]
            first == Min(FieldsOfKind(m, "strs"))
        IN (\A j \in 1..(first - 1) : ~HasNamedItem(m[fieldNames[j]])) =>
               /\ Len(tp.cols) = Len(m[fieldNames[first]].strs)
               /\ \A k \in 1..Len(tp.cols) : tp.cols[k] = m[fieldNames[first]].strs[k]

C4_Witness ==
    /\ FirstAccepted
    /\ metas[1]["Columns"] = Structs(<<Unnamed>>)
    /\ metas[1]["ColNames"] = Strs(<<"upid", "req_path">>)
    /\ tp.cols = <<"upid", "req_path">>

\* C5: metadata exposing only a slice of descriptors that each have a string
\* Name leaves columns equal to the descriptors' names, one per descriptor, in
\* descriptor order.
C5_ColumnsAreDescriptorNames ==
    FirstAccepted =>
        \A i \in FieldsOfKind(metas[1], "structs") :
            LET m == metas[1]
                items == m[fieldNames[i]].items
            IN (/\ \A k \in 1..Len(items) : items[k].NameKind = "string"
                /\ \A j \in 1..Len(fieldNames) :
                      j # i => m[fieldNames[j]].kind \in {"absent", "other"})
               => /\ Len(tp.cols) = Len(items)
                  /\ \A k \in 1..Len(items) : tp.cols[k] = items[k].Name

C5_Witness ==
    /\ FirstAccepted
    /\ metas[1] = Meta(Absent, Absent, Structs(<<Named("req_path"), Named("upid")>>), Absent)
    /\ tp.cols = <<"req_path", "upid">>

\* C6: when every table's metadata exposes none of the recognised shapes,
\* AcceptTable returns the tablePrinter and a nil error, columns is empty, and
\* every HandleRecord returns nil and appends its row.
C6_UnrecognisedMetadataIsNoError ==
    (HasTablePrinter /\ Len(metas) >= 1 /\ \A i \in 1..Len(metas) : Unrecognised(metas[i])) =>
        /\ tp.cols = <<>>
        /\ ret.err.nil
        /\ ret.call = "AcceptTable" => ret.handler = "tablePrinter"
        /\ Len(tp.rows) = Len(delivered)
        /\ pc = "done" /\ failure = NoFailure =>
              /\ resp[1].status = StatusOK
              /\ resp[1].body.columns = <<>>
              /\ Len(resp[1].body.rows) = Len(delivered)

C6_Witness ==
    /\ Responded
    /\ Len(metas) = 1
    /\ Unrecognised(metas[1])
    /\ resp[1].status = StatusOK
    /\ resp[1].body.columns = <<>>
    /\ Len(resp[1].body.rows) = 2

\* C7: a request ends with exactly one response: an error status with a text
\* and no columns or rows, or a 200 with columns, rows and stats, the latter
\* only when ExecuteScript and Stream both returned without error.
C7_OneOutcome ==
    /\ pc # "done" => resp = <<>>
    /\ pc = "done" =>
          /\ Len(resp) = 1
          /\ \/ /\ resp[1].status = StatusOK
                /\ DOMAIN resp[1].body = {"columns", "rows", "stats"}
                /\ resp[1].body.columns = tp.cols
                /\ resp[1].body.rows = tp.rows
                /\ failure = NoFailure
                /\ Count(calls, "ExecuteScript") = 1
                /\ Count(calls, "Stream") = 1
             \/ /\ resp[1].status >= StatusBadRequest
                /\ DOMAIN resp[1].body = {"text"}
                /\ failure # NoFailure

C7_Witness ==
    /\ Responded
    /\ failure.step = "Stream"
    /\ Len(tp.rows) = 2
    /\ resp[1].status = StatusInternalServerError
    /\ DOMAIN resp[1].body = {"text"}

\* C8: in src/main.go a request whose body has an empty script never reaches
\* loadConfig, NewClient, NewVizierClient or ExecuteScript, and as a POST it
\* is answered 400.
C8_EmptyScriptIsRejected ==
    (ver = "main" /\ req.body.json /\ req.body.script = "") =>
        /\ pc = "done"
        /\ calls = <<"Write">>
        /\ ctxs.created = {}
        /\ rs.state = None
        /\ ~HasTablePrinter
        /\ Len(resp) = 1
        /\ req.method = "POST" => resp[1].status = StatusBadRequest

C8_Witness ==
    /\ ver = "main"
    /\ req = [method |-> "POST", body |-> [json |-> TRUE, script |-> ""]]
    /\ Responded
    /\ resp[1].status = StatusBadRequest

\* C9: whenever the error of ExecuteScript or Stream contains
\* "unauthenticated" the response status is 401.
C9_UnauthenticatedIs401 ==
    (/\ Responded
     /\ failure.step \in {"ExecuteScript", "Stream"}
     /\ Contains(failure.err, "unauthenticated"))
        => resp[1].status = StatusUnauthorized

\* C10: whenever NewVizierClient fails with vizCtx's deadline exceeded the
\* response status is 504 and carries no rows.
C10_SessionTimeoutIs504 ==
    (Responded /\ failure.step = "NewVizierClient" /\ failure.expired) =>
        /\ resp[1].status = StatusGatewayTimeout
        /\ DOMAIN resp[1].body = {"text"}

\* C11: a compilation error is answered 400 whether ExecuteScript or Stream
\* returned it, and every other error of the execution step is answered with
\* a 5xx status.
C11_CompilationIs400OthersAre5xx ==
    (Responded /\ failure.step \in {"ExecuteScript", "Stream"}) =>
        IF IsCompilationError(failure.err)
        THEN resp[1].status = StatusBadRequest
        ELSE resp[1].status >= StatusInternalServerError

\* the handler state of request i, running or not
StateOf(i) == IF i = cur THEN Local ELSE parked[i]

\* the columns a fresh tablePrinter has after the AcceptTable calls ms
RECURSIVE ColsAfter(_)
ColsAfter(ms) ==
    IF ms = <<>> THEN <<>>
    ELSE AcceptTableCols(ColsAfter(SubSeq(ms, 1, Len(ms) - 1)), ms[Len(ms)])

\* the rows a fresh tablePrinter has after the HandleRecord calls rs
RowsAfter(records) == [k \in 1..Len(records) |-> RowOf(records[k])]

\* C12: with requests handled concurrently, in every interleaving each
\* request's tablePrinter starts empty and the columns and rows of its
\* response are exactly those its own stream's callbacks produce.
C12_OwnTablePrinterPerRequest ==
    \A i \in Requests :
        LET h == StateOf(i) IN
        /\ (h.pc = "stream" /\ h.ncalls = 0) => h.tp = NewTablePrinter
        /\ (h.pc = "done" /\ h.resp[1].status = StatusOK) =>
              /\ h.resp[1].body.columns = ColsAfter(h.metas)
              /\ h.resp[1].body.rows = RowsAfter(h.delivered)

\* request 1 has been answered with its own table while request 2, in flight
\* with it, is in the middle of its stream with another table
C12_Witness ==
    /\ StateOf(1).pc = "done"
    /\ StateOf(1).resp[1].status = StatusOK
    /\ StateOf(1).resp[1].body.columns = <<"upid", "req_path">>
    /\ StateOf(1).resp[1].body.rows = <<<<"12">>>>
    /\ StateOf(2).pc = "stream"
    /\ StateOf(2).tp = [cols |-> <<"req_path">>, rows |-> <<<<"12", "true">>>>]

C14_ReadmeCallReturnsJson ==
    (/\ Responded
     /\ req = [method |-> "GET", body |-> [json |-> FALSE, script |-> ""]]
     /\ failure.step \notin {"loadConfig", "credentials", "NewClient", "NewVizierClient",
                             "readPXLScript", "ExecuteScript", "Stream"})
        => /\ resp[1].status = StatusOK
           /\ DOMAIN resp[1].body = {"columns", "rows", "stats"}

\* this step is a call of sink callback c
Called(c) == pc = "stream" /\ ncalls' = ncalls + 1 /\ ret'.call = c

\* C15: every HandleRecord call appends one row that has exactly as many
\* cells as the record, whatever the number of columns is; no record is
\* rejected, truncated or padded.
C15_RowHasTheRecordsCells ==
    [][Called("HandleRecord") =>
          /\ ret'.err.nil
          /\ Len(tp'.rows) = Len(tp.rows) + 1
          /\ Len(tp'.rows[Len(tp'.rows)]) = Len(delivered'[Len(delivered')])
          /\ tp'.rows[Len(tp'.rows)] = RowOf(delivered'[Len(delivered')])]_vars

\* two columns, and rows of zero and of three cells
C15_Witness ==
    /\ HasTablePrinter
    /\ tp.cols = <<"upid", "req_path">>
    /\ ncalls = 3
    /\ tp.rows = << <<>>, <<"true", "-7", "12">> >>

\* C16: HandleInit and HandleDone change neither columns nor rows;
\* HandleRecord leaves columns unchanged and keeps the rows it found as a
\* prefix of rows, adding one; AcceptTable leaves rows unchanged.  So a record
\* delivered after HandleDone or before any AcceptTable is appended.
C16_CallbackFrames ==
    [][/\ (Called("HandleInit") \/ Called("HandleDone")) => tp' = tp
       /\ Called("HandleRecord") =>
             /\ tp'.cols = tp.cols
             /\ Len(tp'.rows) = Len(tp.rows) + 1
             /\ SubSeq(tp'.rows, 1, Len(tp.rows)) = tp.rows
       /\ Called("AcceptTable") => tp'.rows = tp.rows]_vars

\* with no table accepted, a record, then HandleDone, then another record:
\* both rows are there
C16_Witness ==
    /\ HasTablePrinter
    /\ cbs = <<"HandleRecord", "HandleDone", "HandleRecord">>
    /\ metas = <<>>
    /\ Len(tp.rows) = 2
    /\ tp.rows[1] # tp.rows[2]

\* of the first n elements of seq, one per delivered record, those whose
\* record belongs to table t, in order
RECURSIVE OfTable(_, _, _)
OfTable(seq, t, n) ==
    IF n = 0 THEN <<>>
    ELSE IF from[n] = t THEN Append(OfTable(seq, t, n - 1), seq[n])
    ELSE OfTable(seq, t, n - 1)

\* C17: AcceptTable returns the tablePrinter as the handler of every table;
\* the records of all tables are in the one rows list in arrival order, so
\* the rows of each table are in that table's arrival order; and a row is
\* the text of its record only: equal records of different tables give equal
\* rows.
C17_OneListInArrivalOrder ==
    (HasTablePrinter /\ pc \in {"stream", "done"}) =>
        /\ DOMAIN tp = {"cols", "rows"}
        /\ ret.call = "AcceptTable" => (ret.handler = "tablePrinter" /\ ret.err.nil)
        /\ Len(from) = Len(delivered)
        /\ Len(tp.rows) = Len(delivered)
        /\ \A i \in 1..Len(delivered) : tp.rows[i] = RowOf(delivered[i])
        /\ \A t \in 1..Len(metas) :
              OfTable(tp.rows, t, Len(from)) = RowsAfter(OfTable(delivered, t, Len(from)))
        /\ \A i, j \in 1..Len(delivered) : delivered[i] = delivered[j] => tp.rows[i] = tp.rows[j]

\* two tables; a record of table 2, then two of table 1, the first of which
\* equals the record of table 2
C17_Witness ==
    /\ HasTablePrinter
    /\ cbs = <<"AcceptTable", "AcceptTable", "HandleRecord", "HandleRecord", "HandleRecord">>
    /\ from = <<2, 1, 1>>
    /\ delivered[1] = delivered[2]
    /\ tp.rows = << <<"12">>, <<"12">>, <<"12", "true">> >>

\* the place of the first x in s
IndexOf(s, x) == Min({i \in 1..Len(s) : s[i] = x})

\* C18: a result set that ExecuteScript returned without error is closed
\* exactly once when the handler returns, after a stream error as after a
\* success, and on success only after Stats() was read and the response
\* written; no result set is closed when ExecuteScript failed or was not
\* reached; every timeout context created is cancelled when the handler
\* returns, whatever the exit path.
C18_ClosedOnceAndCancelled ==
    LET returned == Count(calls, "ExecuteScript") = 1 /\ failure.step # "ExecuteScript" IN
    /\ pc # "done" =>
          /\ rs.closes = 0
          /\ ctxs.cancelled = {}
          /\ Count(calls, "rs.Close") = 0
    /\ pc = "done" =>
          /\ returned =>
                /\ rs = [state |-> "closed", closes |-> 1]
                /\ Count(calls, "rs.Close") = 1
                /\ failure.step \in {None, "Stream"}
          /\ ~returned =>
                /\ rs = [state |-> None, closes |-> 0]
                /\ Count(calls, "rs.Close") = 0
          /\ failure = NoFailure =>
                /\ returned
                /\ IndexOf(calls, "Stats") < IndexOf(calls, "Write")
                /\ IndexOf(calls, "Write") < IndexOf(calls, "rs.Close")
          /\ "viz" \in ctxs.created <=> Count(calls, "NewVizierClient") = 1
          /\ "exec" \in ctxs.created <=> (ver = "main" /\ Count(calls, "ExecuteScript") = 1)
          /\ ctxs.cancelled = ctxs.created
          /\ \A c \in ctxs.created :
                /\ Count(calls, CancelOf(c)) = 1
                /\ IndexOf(calls, "Write") < IndexOf(calls, CancelOf(c))

\* src/main.go after a stream error: the result set closed once, both
\* contexts cancelled
C18_Witness ==
    /\ Responded
    /\ ver = "main"
    /\ failure.step = "Stream"
    /\ rs = [state |-> "closed", closes |-> 1]
    /\ ctxs = [created |-> {"viz", "exec"}, cancelled |-> {"viz", "exec"}]
    /\ calls = <<"loadConfig", "NewClient", "NewVizierClient", "ExecuteScript", "Stream",
                 "Write", "rs.Close", "execCancel", "vizCancel">>

====
